---- MODULE Spec2Model ----
(***************************************************************************)
(* Model of ring_doorbell.Ring (src/ring_doorbell/__init__.py): the        *)
(* session construction, the OAuth token handling (_get_oauth_token), the  *)
(* session authentication loop (_authenticate) and the request wrapper     *)
(* (query).  One step of the model is one network exchange of the code     *)
(* together with the handling of its response.  The wall clock is modelled *)
(* by the one fact the code reads from it: whether dt.now() has reached    *)
(* last_refresh + expires_in (elapsed).                                    *)
(***************************************************************************)
EXTENDS Integers, Sequences, FiniteSets, TLC

\* ------------------------------------------------------------------ bounds
MaxAttempts == 1     \* an attempts argument is 0..MaxAttempts
NTok == 8            \* token ids are 1..NTok, more than the places that hold one

\* ------------------------------------------------------- program constants
\* ring_doorbell.const is a module of its own: the values here are the model's
RETRY_TOKEN == 1     \* const.RETRY_TOKEN, the default of attempts
API_VERSION == 9     \* const.API_VERSION

\* --------------------------------------------------------- value universes
NoTok == 0           \* None where a token (string) is expected
NoAuth == [access_token |-> 0]
NoParams == [defined |-> FALSE, api_version |-> 0, auth_token |-> 0, k |-> 0]
NoExtra == [auth_token |-> 0, k |-> 0]
NoCache == [exists |-> FALSE, account |-> "", token |-> 0, auth |-> NoAuth]
NoResp == [status |-> 0, body |-> "none"]    \* None where a response is expected
Exc == [status |-> -1, body |-> "none"]      \* the request raised RequestException

Users == {"u1", "u2"}
Methods == {"GET", "PUT", "POST"}
Urls == {"devices"}
Extras == {NoExtra, [auth_token |-> 99, k |-> 7]}
Bodies == {"j1", "j2", "bad"}

VARIABLES
    \* fields of the Ring object
    is_connected,    \* "None", "True", "False"
    token,           \* session token
    params,          \* persistent query parameters
    auth,            \* OAuth token
    last_refresh,    \* "None", or "set": the time of the last OAuth refresh
    cfg,             \* username, debug, persist_token, push_url, reuse_session
    \* environment
    cacheFile,       \* contents of cache_file
    elapsed,         \* dt.now() has reached last_refresh + expires_in
    \* control
    op,              \* "none" (no object), "idle", "init", "query"
    qf,              \* frame of query
    af,              \* frame of _authenticate
    \* history
    sent,            \* the requests the last step sent (kept while none is sent)
    count,           \* requests of the running top-level call, by endpoint
    ret,             \* the running or last top-level call and how it ended
    lastOauth,       \* the last _get_oauth_token call on this object
    posted,          \* the response to the last POST of a direct _authenticate call
    merged           \* the extra_params the query calls on this object have merged

vars == <<is_connected, token, params, auth, last_refresh, cfg, cacheFile, elapsed,
          op, qf, af, sent, count, ret, lastOauth, posted, merged>>

objVars == <<is_connected, token, params, auth, last_refresh>>

\* ------------------------------------------------------------ small helpers
\* a request as the transport sees it
Request(kind, url, oauth, p) == [kind |-> kind, url |-> url, oauth |-> oauth, params |-> p]

\* truth value of a response object: None is falsy, a Response is its .ok
Ok(r) == r.status # 0 /\ r.status < 400

\* Response.raise_for_status(): raises for 4xx and 5xx
RaisesForStatus(r) == r.status >= 400

\* Response.json(): decodes the body or raises
json(b) == [err |-> b = "bad", val |-> IF b = "j1" THEN 1 ELSE IF b = "j2" THEN 2 ELSE 0]

\* {'api_version': API_VERSION, 'auth_token': self.token}
BaseParams(t) == [defined |-> TRUE, api_version |-> API_VERSION, auth_token |-> t, k |-> 0]

\* params.update(extra_params)
Update(p, x) == [p EXCEPT !.auth_token = IF x.auth_token # 0 THEN x.auth_token ELSE @,
                          !.k = IF x.k # 0 THEN x.k ELSE @]

NoQ == [active |-> FALSE, pc |-> "none", url |-> "", method |-> "", raw |-> FALSE,
        extra |-> NoExtra, attempts |-> 0, loop |-> 0, hdr |-> 0, caller |-> "",
        lastReq |-> [kind |-> "", url |-> ""]]
\* nulls: in a direct call, the passes of the loop so far in which req was None
NoA == [active |-> FALSE, attempts |-> 0, session |-> NoResp, loop |-> 0, nulls |-> 0,
        caller |-> ""]
NoValue == [type |-> "none", status |-> 0, body |-> "none", val |-> 0]
\* ret: op, the top-level call; kind, "running", "returned" or "raised";
\* value, what query returned; path, the branch a construction took;
\* method and raw, those arguments of query; first and resp, the status of the
\* first and the whole of the last response to query; auth, how the last
\* _authenticate call inside the top-level call ended
\* attempts: that argument of a direct _authenticate call
NoRet == [op |-> "none", kind |-> "none", err |-> "none", value |-> NoValue,
          path |-> "none", method |-> "", raw |-> FALSE, attempts |-> 0, first |-> 0,
          resp |-> NoResp, auth |-> "none"]
\* nulls: the POSTs of a direct _authenticate call that got no response
NoCount == [query |-> 0, session |-> 0, n401 |-> 0, nulls |-> 0]
\* lastOauth: ret, the token returned; expired, the call found the lifetime of
\* the token over; net, the request made; refused, that request failed;
\* failed, the call raised; during, the top-level call it was part of; second
\* and same, see OauthRecord
NoOauth == [ret |-> 0, expired |-> FALSE, net |-> "none", refused |-> FALSE,
            failed |-> FALSE, during |-> "none", second |-> FALSE, same |-> FALSE]

\* the loop counter without its increment
NextPass_stuck(loop) == loop
\* loop += 1, lines 146 and 241
NextPass(loop) == loop + 1

QueryFrame(url, method, raw, extra, attempts, caller) ==
    [active |-> TRUE, pc |-> "oauth", url |-> url, method |-> method, raw |-> raw,
     extra |-> extra, attempts |-> attempts, loop |-> 0, hdr |-> 0,
     caller |-> caller, lastReq |-> [kind |-> "", url |-> ""]]

AuthFrame(caller, session) ==
    [active |-> TRUE, attempts |-> RETRY_TOKEN, session |-> session, loop |-> 0,
     nulls |-> 0, caller |-> caller]

\* ------------------------------------------------------- _get_oauth_token
\* the test of line 126 without dt.now() >= refresh_at
OAuthBranch_unexpiring ==
    IF auth = NoAuth THEN "fetch"
    ELSE IF last_refresh = "None" THEN "refresh" ELSE "reuse"

\* which of the three paths the call takes
OAuthBranch ==
    IF auth = NoAuth THEN "fetch"
    ELSE IF last_refresh = "None" \/ elapsed THEN "refresh" ELSE "reuse"

\* the OAuth access tokens, and the session tokens, some variable still holds
InUse ==
    {auth.access_token, cacheFile.auth.access_token, qf.hdr, lastOauth.ret,
     ret.value.val}
    \cup {sent[i].oauth : i \in DOMAIN sent}
SessionsInUse ==
    {token, params.auth_token, cacheFile.token}
    \cup {sent[i].params.auth_token : i \in DOMAIN sent}

\* the servers issue token strings that differ from every token still held:
\* the least id outside used
Fresh(used) == CHOOSE n \in 1..NTok : n \notin used /\ \A m \in 1..(n - 1) : m \in used

\* the token the OAuth server issues now
Issued == [access_token |-> Fresh(InUse)]

\* _get_oauth_token without line 128: a refresh does not record its time
_get_oauth_token_unstamped(served) ==
    LET b == OAuthBranch
        issue == [raised |-> ~served, refused |-> ~served, net |-> b,
                  auth |-> IF served THEN Issued ELSE auth,
                  last_refresh |-> last_refresh, elapsed |-> elapsed,
                  tok |-> IF served THEN Fresh(InUse) ELSE 0,
                  reqs |-> <<Request(IF b = "fetch" THEN "FETCH" ELSE "REFRESH",
                                     "oauth", 0, NoParams)>>]
    IN
    IF b \in {"fetch", "refresh"} THEN issue
    ELSE [raised |-> FALSE, refused |-> FALSE, net |-> "none", auth |-> auth,
          last_refresh |-> last_refresh, elapsed |-> elapsed,
          tok |-> auth.access_token, reqs |-> <<>>]

\* one call; served: the OAuth server answers the fetch or refresh with a
\* token, otherwise Auth.fetch_token / refresh_tokens raises.  After a refresh
\* last_refresh is dt.now(), which last_refresh + expires_in lies ahead of.
\* raised: the call raises, refused: its fetch or refresh request failed
_get_oauth_token(served) ==
    LET b == OAuthBranch IN
    IF b = "fetch" THEN
        [raised |-> ~served, refused |-> ~served, net |-> "fetch",
         auth |-> IF served THEN Issued ELSE auth,
         last_refresh |-> last_refresh, elapsed |-> elapsed,
         tok |-> IF served THEN Fresh(InUse) ELSE 0,
         reqs |-> <<Request("FETCH", "oauth", 0, NoParams)>>]
    ELSE IF b = "refresh" THEN
        [raised |-> ~served, refused |-> ~served, net |-> "refresh",
         auth |-> IF served THEN Issued ELSE auth,
         last_refresh |-> IF served THEN "set" ELSE last_refresh,
         elapsed |-> IF served THEN FALSE ELSE elapsed,
         tok |-> IF served THEN Fresh(InUse) ELSE 0,
         reqs |-> <<Request("REFRESH", "oauth", 0, NoParams)>>]
    ELSE
        [raised |-> FALSE, refused |-> FALSE, net |-> "none", auth |-> auth,
         last_refresh |-> last_refresh, elapsed |-> elapsed, tok |-> auth.access_token,
         reqs |-> <<>>]

\* what the OAuth server may do in a call: it is asked only for a fetch or a
\* refresh, and then answers with a token (TRUE) or the request fails (FALSE)
Served == IF OAuthBranch = "reuse" THEN {TRUE} ELSE BOOLEAN

\* The history record of a call.  second: the call before it was made on this
\* object after its construction and returned a token, and that token has not
\* expired since; same: the call returns the token the call before it returned.
OauthRecord(g) ==
    [ret |-> g.tok, expired |-> elapsed, net |-> g.net, refused |-> g.refused,
     failed |-> g.raised,
     during |-> IF op = "idle" THEN "oauth" ELSE op,
     second |-> /\ lastOauth.during \in {"query", "oauth"} /\ ~lastOauth.failed
                /\ op \in {"query", "idle"}
                /\ ~elapsed,
     same |-> ~g.raised /\ g.tok = lastOauth.ret]

\* ----------------------------------------------------------- _authenticate
AuthResponses ==
    {NoResp} \cup {[status |-> st, body |-> "j1"] : st \in {200, 204, 500}}
             \cup {[status |-> 201, body |-> b] : b \in {"j1", "bad"}}

\* the cache record written by _save_cache
CacheRecord(t, a) == [exists |-> TRUE, account |-> cfg.username, token |-> t, auth |-> a]

\* the secondary PUT is made when both settings are truthy
PersistEnabled == cfg.persist_token /\ cfg.push_url # ""

\* lines 169-171: the session token after a 200 or 201; the token in the body
\* of a 201 is one the server issues now
SessionToken_kept(req) == token
SessionToken(req) == IF req.status = 201 THEN Fresh(SessionsInUse) ELSE token

\* lines 196-197 without line 195: is_connected keeps its value
_authenticate_exhausted_unmarked(req) ==
    IF req = NoResp THEN [out |-> "raise", err |-> "attribute", is_connected |-> is_connected]
    ELSE IF RaisesForStatus(req)
    THEN [out |-> "raise", err |-> "http", is_connected |-> is_connected]
    ELSE [out |-> "return", err |-> "none", is_connected |-> is_connected]

\* After the loop, lines 195-197: self.is_connected = False;
\* req.raise_for_status(); return True
_authenticate_exhausted(req) ==
    IF req = NoResp THEN [out |-> "raise", err |-> "attribute", is_connected |-> "False"]
    ELSE IF RaisesForStatus(req)
    THEN [out |-> "raise", err |-> "http", is_connected |-> "False"]
    ELSE [out |-> "return", err |-> "none", is_connected |-> "False"]

\* One pass of the while loop, and what follows the loop when the pass was
\* the last one.  g: the outcome of _get_oauth_token, r: what session.post
\* gives (a response, NoResp for none, Exc for a RequestException),
\* putFails: session.put raises.
_authenticate(g, r, putFails) ==
    LET hdr == g.tok
        posts == af.session = NoResp
        post == IF posts THEN <<Request("POST", "session", hdr, NoParams)>> ELSE <<>>
        req == IF posts THEN r ELSE af.session
        same == [out |-> "raise", err |-> "oauth", end |-> "raised", auth |-> g.auth,
                 last_refresh |-> g.last_refresh,
                 token |-> token, is_connected |-> is_connected, params |-> params,
                 cacheFile |-> cacheFile, reqs |-> g.reqs]
        again == IF af.loop + 1 <= af.attempts
                 THEN [same EXCEPT !.out = "again", !.err = "none", !.end = "running",
                                   !.reqs = g.reqs \o post]
                 ELSE \* lines 195-197
                      [same EXCEPT !.out = _authenticate_exhausted(req).out,
                                   !.err = _authenticate_exhausted(req).err,
                                   !.end = "exhausted",
                                   !.is_connected = _authenticate_exhausted(req).is_connected,
                                   !.reqs = g.reqs \o post]
    IN
    IF g.raised THEN same
    ELSE IF posts /\ r = Exc THEN
        [same EXCEPT !.err = "transport", !.reqs = g.reqs \o post]
    ELSE IF ~Ok(req) THEN
        \* time.sleep(wait); continue
        again
    ELSE IF req.status = 200 \/ req.status = 201 THEN
        IF req.status = 201 /\ json(req.body).err THEN
            [same EXCEPT !.err = "body", !.reqs = g.reqs \o post]
        ELSE
            LET tk == SessionToken(req)
                put == IF PersistEnabled
                       THEN <<Request("PUT", "persist", hdr,
                                      [NoParams EXCEPT !.auth_token = tk])>>
                       ELSE <<>>
                done == [same EXCEPT !.out = "return", !.err = "none", !.end = "ok",
                                     !.reqs = g.reqs \o post \o put,
                                     !.token = tk,
                                     !.is_connected = "True",
                                     !.params = BaseParams(tk)]
            IN
            IF PersistEnabled /\ putFails THEN
                [done EXCEPT !.out = "raise", !.err = "transport", !.end = "raised"]
            ELSE IF cfg.reuse_session THEN
                [done EXCEPT !.cacheFile = CacheRecord(tk, g.auth)]
            ELSE done
    ELSE again

\* -------------------------------------------------------------------- query
QueryResponses ==
    {[status |-> st, body |-> b] : st \in {200, 204}, b \in Bodies}
        \cup {[status |-> st, body |-> "j1"] : st \in {401, 500}}

ResponseValue(r) == [type |-> "response", status |-> r.status, body |-> r.body, val |-> 0]
\* line 275 without .json(): the response itself
JsonValue_unparsed(r) == ResponseValue(r)
JsonValue(r) == [type |-> "json", status |-> r.status, body |-> r.body,
                 val |-> json(r.body).val]

\* query without lines 264-267: a 401 is handled as any other error status
query_no_reauth(r) ==
    LET p == IF qf.extra # NoExtra THEN Update(params, qf.extra) ELSE params
        rq == Request(qf.method, qf.url, qf.hdr, p)
        base == [out |-> "raise", err |-> "transport", params |-> p, req |-> rq,
                 is_connected |-> is_connected, value |-> NoValue]
    IN
    IF r = Exc THEN base
    ELSE IF r.status = 200 \/ r.status = 204 THEN
        IF qf.raw THEN
            [base EXCEPT !.out = "return", !.err = "none", !.value = ResponseValue(r)]
        ELSE IF qf.method = "GET" THEN
            IF json(r.body).err THEN [base EXCEPT !.err = "body"]
            ELSE [base EXCEPT !.out = "return", !.err = "none", !.value = JsonValue(r)]
        ELSE [base EXCEPT !.out = "return", !.err = "none"]
    ELSE IF qf.loop + 1 <= qf.attempts THEN [base EXCEPT !.out = "again", !.err = "none"]
    ELSE [base EXCEPT !.out = "over", !.err = "none"]

\* One pass of the while loop: the merge of extra_params, the request and the
\* handling of its response r (Exc: the request raised).  "over": the loop
\* ends without a response to return.
query(r) ==
    LET p == IF qf.extra # NoExtra THEN Update(params, qf.extra) ELSE params
        rq == Request(qf.method, qf.url, qf.hdr, p)
        base == [out |-> "raise", err |-> "transport", params |-> p, req |-> rq,
                 is_connected |-> is_connected, value |-> NoValue]
    IN
    IF r = Exc THEN base
    ELSE IF r.status = 401 THEN
        [base EXCEPT !.out = "auth", !.err = "none", !.is_connected = "False"]
    ELSE IF r.status = 200 \/ r.status = 204 THEN
        IF qf.raw THEN
            [base EXCEPT !.out = "return", !.err = "none", !.value = ResponseValue(r)]
        ELSE IF qf.method = "GET" THEN
            IF json(r.body).err THEN [base EXCEPT !.err = "body"]
            ELSE [base EXCEPT !.out = "return", !.err = "none", !.value = JsonValue(r)]
        ELSE [base EXCEPT !.out = "return", !.err = "none"]
    ELSE IF qf.loop + 1 <= qf.attempts THEN [base EXCEPT !.out = "again", !.err = "none"]
    ELSE [base EXCEPT !.out = "over", !.err = "none"]

\* ------------------------------------------------------------------ actions
DefaultCfg == [username |-> "u1", debug |-> FALSE, persist_token |-> FALSE,
               push_url |-> "http://localhost/", reuse_session |-> TRUE]

Init ==
    /\ is_connected = "None" /\ token = NoTok /\ params = NoParams
    /\ auth = NoAuth /\ last_refresh = "None" /\ cfg = DefaultCfg
    /\ cacheFile = NoCache /\ elapsed = FALSE
    /\ op = "none" /\ qf = NoQ /\ af = NoA
    /\ sent = <<>> /\ count = NoCount /\ ret = NoRet /\ lastOauth = NoOauth
    /\ posted = NoResp /\ merged = NoExtra

Running(o) == [NoRet EXCEPT !.op = o, !.kind = "running"]

\* how many of the requests rs go to the new-session endpoint
Sessions(rs) == Cardinality({i \in DOMAIN rs : rs[i].url = "session"})

\* the exception is caught where it is raised: the frames go on
Raise_handled(err, e, resp) ==
    /\ ret' = [ret EXCEPT !.err = err, !.auth = e, !.resp = resp]
    /\ UNCHANGED <<op, qf, af>>

\* an exception leaves every frame; e: how the _authenticate call it passes
\* through ended, resp: the last response to query
Raise(err, e, resp) ==
    /\ op' = IF op = "init" THEN "none" ELSE "idle"
    /\ ret' = [ret EXCEPT !.kind = "raised", !.err = err, !.auth = e, !.resp = resp,
                          !.first = IF @ = 0 THEN resp.status ELSE @]
    /\ qf' = NoQ /\ af' = NoA

\* the test without the comparison of the account with the username
Usable_any_account(c, u) == c.token # NoTok /\ c.account # ""

\* the cached session is usable (the negation of the test at lines 81-83)
Usable(c, u) == c.token # NoTok /\ c.account # "" /\ c.account = u

\* which branch of __init__ and _process_cached_session a construction takes
PathOf(u, r) ==
    IF ~r THEN "noreuse"
    ELSE IF ~cacheFile.exists THEN "nocache"
    ELSE IF Usable(cacheFile, u) THEN "cached"
    ELSE IF cacheFile.token # NoTok THEN "mismatch"
    ELSE "corrupt"

\* Ring(username, password, debug, persist_token, reuse_session)
Construct(u, d, p, r) ==
    /\ op \in {"none", "idle"} /\ ret = NoRet
    /\ cfg' = [username |-> u, debug |-> d, persist_token |-> p,
               push_url |-> "http://localhost/", reuse_session |-> r]
    /\ op' = "init" /\ ret' = [Running("init") EXCEPT !.path = PathOf(u, r)]
    /\ sent' = <<>> /\ count' = NoCount /\ lastOauth' = NoOauth /\ posted' = NoResp
    /\ is_connected' = "None" /\ last_refresh' = "None" /\ elapsed' = FALSE
    /\ IF PathOf(u, r) = "cached"
       THEN \* _process_cached_session, lines 88-98: query(url, raw=True)
            /\ token' = cacheFile.token
            /\ params' = BaseParams(cacheFile.token)
            /\ auth' = cacheFile.auth
            /\ qf' = QueryFrame("devices", "GET", TRUE, NoExtra, RETRY_TOKEN, "init")
            /\ af' = IF d THEN AuthFrame("q_pre", NoResp) ELSE NoA
       ELSE /\ token' = NoTok /\ params' = NoParams /\ auth' = NoAuth
            /\ qf' = NoQ
            /\ af' = AuthFrame("init", NoResp)
    /\ merged' = NoExtra
    /\ UNCHANGED cacheFile

\* ring.query(url, attempts, method, raw, extra_params), lines 215-220
Query(url, method, raw, extra, attempts) ==
    /\ op = "idle" /\ ret = NoRet
    /\ op' = "query"
    /\ ret' = [Running("query") EXCEPT !.method = method, !.raw = raw]
    /\ sent' = <<>> /\ count' = NoCount
    /\ qf' = QueryFrame(url, method, raw, extra, attempts, "user")
    /\ af' = IF cfg.debug /\ is_connected # "True"
             THEN AuthFrame("q_pre", NoResp) ELSE NoA
    /\ UNCHANGED <<objVars, cfg, cacheFile, elapsed, lastOauth, posted, merged>>

\* query, lines 223-228
QueryOAuth ==
    /\ qf.active /\ ~af.active /\ qf.pc = "oauth"
    /\ \E served \in Served :
         LET g == _get_oauth_token(served) IN
         /\ auth' = g.auth /\ last_refresh' = g.last_refresh /\ elapsed' = g.elapsed
         /\ sent' = g.reqs
         /\ lastOauth' = OauthRecord(g)
         /\ IF g.raised
            THEN Raise("oauth", ret.auth, ret.resp)
            ELSE /\ qf' = [qf EXCEPT !.hdr = g.tok, !.pc = "loop"]
                 /\ UNCHANGED <<op, af, ret>>
    /\ UNCHANGED <<is_connected, token, params, cfg, cacheFile, count, posted, merged>>

\* query returns v to its caller; lines 99-102 when the caller is
\* _process_cached_session
QueryReturn(v, resp, e) ==
    IF qf.caller = "user"
    THEN /\ op' = "idle" /\ qf' = NoQ /\ af' = NoA
         /\ ret' = [ret EXCEPT !.kind = "returned", !.value = v, !.resp = resp,
                               !.first = IF @ = 0 THEN resp.status ELSE @,
                               !.auth = e]
    ELSE /\ qf' = NoQ
         /\ af' = AuthFrame("init", IF v.type = "response" /\ v.status = 200
                                    THEN [status |-> v.status, body |-> v.body]
                                    ELSE NoResp)
         /\ ret' = [ret EXCEPT !.resp = resp, !.auth = e,
                               !.first = IF @ = 0 THEN resp.status ELSE @]
         /\ op' = op

\* query, lines 229-280: one pass of the loop
QueryIter ==
    /\ qf.active /\ ~af.active /\ qf.pc = "loop"
    /\ qf.loop <= qf.attempts
    /\ IF ~params.defined
       THEN \* self.params is None: params.update and urlencode(params) raise
            /\ Raise("params", ret.auth, ret.resp)
            /\ UNCHANGED <<params, is_connected, sent, count>>
       ELSE \E r \in QueryResponses \cup {Exc} :
         LET s == query(r)
             q == [qf EXCEPT !.loop = NextPass(@),
                             !.lastReq = [kind |-> s.req.kind, url |-> s.req.url]]
             rt == [ret EXCEPT !.resp = r, !.first = IF @ = 0 THEN r.status ELSE @]
         IN
         /\ params' = s.params
         /\ is_connected' = s.is_connected
         /\ sent' = <<s.req>>
         /\ count' = [count EXCEPT !.query = @ + 1,
                                   !.n401 = IF r.status = 401 THEN @ + 1 ELSE @]
         /\ CASE s.out = "raise" -> Raise(s.err, ret.auth, r)
              [] s.out = "auth" ->
                    /\ qf' = q
                    /\ af' = AuthFrame("q_401", NoResp)
                    /\ ret' = rt
                    /\ op' = op
              [] s.out = "again" ->
                    /\ qf' = q
                    /\ ret' = rt
                    /\ UNCHANGED <<op, af>>
              [] s.out \in {"return", "over"} -> QueryReturn(s.value, r, ret.auth)
    /\ merged' = IF params.defined /\ qf.extra # NoExtra THEN Update(merged, qf.extra)
                 ELSE merged
    /\ UNCHANGED <<token, auth, last_refresh, cfg, cacheFile, elapsed, lastOauth,
                   posted>>

\* _authenticate returns True to its caller; e: "ok" or "exhausted"
AuthReturn(e) ==
    IF af.caller \in {"init", "user"}
    THEN /\ op' = "idle" /\ qf' = NoQ /\ af' = NoA
         /\ ret' = [ret EXCEPT !.kind = "returned", !.auth = e]
    ELSE IF af.caller = "q_401" /\ qf.loop > qf.attempts
    THEN \* line 229: the loop of query is over, response is still None
         QueryReturn(NoValue, ret.resp, e)
    ELSE /\ af' = NoA
         /\ ret' = [ret EXCEPT !.auth = e]
         /\ UNCHANGED <<op, qf>>

\* _authenticate, lines 143-197: one pass of the loop
AuthIter ==
    /\ af.active /\ af.loop <= af.attempts
    /\ \E served \in Served,
          r \in (IF af.session = NoResp THEN AuthResponses \cup {Exc} ELSE {af.session}),
          putFails \in (IF PersistEnabled THEN BOOLEAN ELSE {FALSE}) :
         LET g == _get_oauth_token(served)
             s == _authenticate(g, r, putFails)
         IN
         /\ auth' = s.auth /\ last_refresh' = s.last_refresh /\ elapsed' = g.elapsed
         /\ token' = s.token /\ is_connected' = s.is_connected
         /\ params' = s.params /\ cacheFile' = s.cacheFile
         /\ sent' = s.reqs
         /\ count' = [count EXCEPT !.session = @ + Sessions(s.reqs),
                                   !.nulls = IF r = NoResp /\ Sessions(s.reqs) = 1
                                                /\ af.caller = "user"
                                             THEN @ + 1 ELSE @]
         /\ lastOauth' = OauthRecord(g)
         /\ posted' = IF af.caller = "user" /\ ~g.raised THEN r ELSE NoResp
         /\ CASE s.out = "raise" -> Raise(s.err, s.end, ret.resp)
              [] s.out = "again" ->
                    /\ af' = [af EXCEPT !.loop = NextPass(@),
                                        !.nulls = IF r = NoResp /\ af.caller = "user"
                                                  THEN @ + 1 ELSE @]
                    /\ ret' = [ret EXCEPT !.auth = "running"]
                    /\ UNCHANGED <<op, qf>>
              [] s.out = "return" -> AuthReturn(s.end)
    /\ UNCHANGED <<cfg, merged>>

\* a direct call of ring._authenticate(attempts)
CallAuthenticate(attempts) ==
    /\ op = "idle" /\ ret = NoRet
    /\ op' = "auth" /\ ret' = [Running("auth") EXCEPT !.attempts = attempts]
    /\ sent' = <<>> /\ count' = NoCount
    /\ af' = [AuthFrame("user", NoResp) EXCEPT !.attempts = attempts]
    /\ UNCHANGED <<objVars, cfg, cacheFile, elapsed, qf, lastOauth, posted, merged>>

\* a direct call of ring._get_oauth_token()
CallGetOAuthToken ==
    /\ op = "idle" /\ ret = NoRet
    /\ \E served \in Served :
         LET g == _get_oauth_token(served) IN
         /\ auth' = g.auth /\ last_refresh' = g.last_refresh /\ elapsed' = g.elapsed
         /\ sent' = g.reqs /\ count' = NoCount
         /\ lastOauth' = OauthRecord(g)
         /\ ret' = [Running("oauth") EXCEPT
                       !.kind = IF g.raised THEN "raised" ELSE "returned",
                       !.err = IF g.raised THEN "oauth" ELSE "none",
                       !.value = [NoValue EXCEPT !.type = "token", !.val = g.tok]]
    /\ UNCHANGED <<is_connected, token, params, cfg, cacheFile, op, qf, af, posted,
                   merged>>

\* The top-level call is over and its caller has its outcome: the history of
\* the call is dropped before the next call is made.
Forget ==
    /\ op \in {"none", "idle"} /\ ret # NoRet
    /\ ret' = NoRet /\ sent' = <<>> /\ count' = NoCount /\ posted' = NoResp
    /\ UNCHANGED <<objVars, cfg, cacheFile, elapsed, op, qf, af, lastOauth, merged>>

\* the wall clock reaches last_refresh + expires_in: the test of line 126,
\* dt.now() >= refresh_at, holds from now on, until the next refresh
Elapse ==
    /\ last_refresh # "None" /\ ~elapsed
    /\ elapsed' = TRUE
    /\ UNCHANGED <<objVars, cfg, cacheFile, op, qf, af, sent, count, ret, lastOauth,
                   posted, merged>>

QueryArgs == Urls \X Methods \X BOOLEAN \X Extras \X (0..MaxAttempts)

\* sessions of one user without a cache file, and every call made on them
Next ==
    \/ \E d \in BOOLEAN : Construct("u1", d, FALSE, FALSE)
    \/ \E a \in QueryArgs : Query(a[1], a[2], a[3], a[4], a[5])
    \/ QueryOAuth
    \/ QueryIter
    \/ AuthIter
    \/ CallGetOAuthToken
    \/ Forget
    \/ Elapse

Spec == Init /\ [][Next]_vars

\* constructions only: sessions of every configuration over a shared cache file
NextInit ==
    \/ \E u \in Users, d \in BOOLEAN, p \in BOOLEAN, r \in BOOLEAN : Construct(u, d, p, r)
    \/ QueryOAuth
    \/ QueryIter
    \/ AuthIter
    \/ Forget
    \/ Elapse

SpecInit == Init /\ [][NextInit]_vars

\* sessions of one user without a cache file, and direct calls of
\* _authenticate, with an attempts argument, and of _get_oauth_token
NextAuth ==
    \/ Construct("u1", FALSE, FALSE, FALSE)
    \/ \E a \in 0..(MaxAttempts + 1) : CallAuthenticate(a)
    \/ AuthIter
    \/ CallGetOAuthToken
    \/ Forget
    \/ Elapse

SpecAuth == Init /\ [][NextAuth]_vars

\* sessions of one user that share a cache file (reuse_session), their queries
\* and their direct _get_oauth_token calls
NextReuse ==
    \/ Construct("u1", FALSE, FALSE, TRUE)
    \/ \E a \in 0..MaxAttempts : Query("devices", "GET", FALSE, NoExtra, a)
    \/ QueryOAuth
    \/ QueryIter
    \/ AuthIter
    \/ CallGetOAuthToken
    \/ Forget
    \/ Elapse

SpecReuse == Init /\ [][NextReuse]_vars

\* A session of one user, its queries and its direct _authenticate calls, run
\* to their end: the interpreter goes on with a call it has begun, and every
\* request comes back with a response, with none, or with an exception
\* (each request is made with a timeout).
NextRun ==
    \/ Construct("u1", FALSE, FALSE, FALSE)
    \/ \E a \in 0..MaxAttempts : Query("devices", "GET", FALSE, NoExtra, a)
    \/ \E a \in 0..MaxAttempts : CallAuthenticate(a)
    \/ QueryOAuth
    \/ QueryIter
    \/ AuthIter
    \/ Forget
    \/ Elapse

SpecRun ==
    /\ Init /\ [][NextRun]_vars
    /\ WF_vars(QueryOAuth) /\ WF_vars(QueryIter) /\ WF_vars(AuthIter)

\* ===================================================================== C1
\* steps of query and of the _authenticate call it makes for a 401
Got401 ==
    /\ qf.active /\ ~af.active /\ count'.query = count.query + 1
    /\ ret'.resp.status = 401
AuthReturnsToQuery ==
    /\ af.active /\ af.caller = "q_401" /\ af'.caller # "q_401"
    /\ ret'.kind # "raised"
SendsAfter401 ==
    /\ qf.active /\ ~af.active /\ qf.pc = "loop" /\ ret.resp.status = 401
    /\ qf' # qf

\* the request the step sends is the one query sent before
SameRequest ==
    /\ count'.query = count.query + 1
    /\ Len(sent') = 1
    /\ sent'[1].kind = qf.lastReq.kind /\ sent'[1].url = qf.lastReq.url

\* C1 as the specification states it: every 401 starts one _authenticate
\* call, and when that call returns query sends the same request again.
C1_EveryUnauthorizedResent ==
    [][/\ Got401 => af' = AuthFrame("q_401", NoResp)
       /\ AuthReturnsToQuery => qf'.active /\ qf'.pc = "loop" /\ ~af'.active
       /\ SendsAfter401 => SameRequest]_vars

\* C1, amended: every 401 starts one _authenticate call; when that call
\* returns and the 401 was not the response of the last pass of the loop
\* (loop <= attempts), the next step of query sends the same request again;
\* after a 401 in the last pass query returns null and sends nothing.
C1_UnauthorizedResentWhilePassesRemain ==
    [][/\ Got401 => af' = AuthFrame("q_401", NoResp)
       /\ AuthReturnsToQuery /\ qf.loop <= qf.attempts
            => qf'.active /\ qf'.pc = "loop" /\ ~af'.active
       /\ AuthReturnsToQuery /\ qf.loop > qf.attempts
            => /\ ~qf'.active /\ count'.query = count.query
               /\ (qf.caller = "user" => ret'.kind = "returned" /\ ret'.value = NoValue)
       /\ SendsAfter401 => SameRequest]_vars

\* a query without debug that got a 401, re-authenticated, sent the request
\* again and returned the JSON of the second response
C1_Witness ==
    /\ ret.op = "query" /\ ret.kind = "returned" /\ ~cfg.debug
    /\ count.n401 = 1 /\ count.query = 2 /\ ret.auth = "ok"
    /\ ret.first = 401 /\ ret.resp.status = 200 /\ ret.value.type = "json"

\* ===================================================================== C2
\* C2: a call of query sends at most attempts requests.
C2_AtMostAttemptsRequests ==
    qf.active /\ qf.caller = "user" => count.query <= qf.attempts

\* ===================================================================== C3
\* C3: the request query sends again after a 401 and the re-authentication
\* carries the OAuth access token and the session token the object holds at
\* that moment (stated for the calls without extra parameters).
C3_ResentCarriesCurrentTokens ==
    [][SendsAfter401 /\ count'.query = count.query + 1 /\ qf.extra = NoExtra
          => /\ sent'[1].oauth = auth.access_token
             /\ sent'[1].params.auth_token = token]_vars

\* ===================================================================== C4
\* C4: an _authenticate call that uses up its attempts without a 200 or 201
\* leaves is_connected false and raises; it never returns normally.
C4_ExhaustionRaises ==
    ret.auth = "exhausted" => ret.kind = "raised" /\ is_connected = "False"

\* ===================================================================== C5
\* C5: of two consecutive _get_oauth_token calls on a constructed object with
\* no expiry between them, the second makes no fetch and no refresh request
\* and returns the token the first returned.
C5_SecondCallReuses ==
    lastOauth.second => lastOauth.net = "none" /\ lastOauth.same /\ ~lastOauth.failed

\* a direct call that followed another call within the token's lifetime
C5_Witness ==
    /\ lastOauth.second /\ lastOauth.during = "oauth" /\ ret.op = "oauth"
    /\ ret.kind = "returned" /\ ret.value.val = auth.access_token

\* ===================================================================== C6
\* C6: when _get_oauth_token finds the token expired and its refresh request
\* fails, the call falls back to a fetch and returns a token instead of
\* failing.
C6_RefreshFailureFallsBack ==
    lastOauth.expired /\ lastOauth.net = "refresh" /\ lastOauth.refused
        => ~lastOauth.failed /\ lastOauth.ret # NoTok

\* ===================================================================== C7
\* C7: a construction with reuse_session that finds a cache of its own
\* account, and whose validation GET is answered with 200, sends exactly that
\* one GET, no POST to the new-session endpoint, and ends connected,
\* whatever the rest of the configuration is.
C7_CachedSessionValidated ==
    ret.op = "init" /\ ret.kind = "returned" /\ ret.path = "cached" /\ ret.first = 200
        => count.query = 1 /\ count.session = 0 /\ is_connected = "True"

\* ===================================================================== C8
\* C8: a construction with reuse_session that finds a cache of another
\* account, with a token in it, sends no request that carries the cached
\* session token or the cached OAuth token, and when it completes it has
\* sent a POST to the new-session endpoint and no validation GET.
C8_MismatchedCacheIgnored ==
    [][(/\ op = "init" /\ cfg.reuse_session /\ cacheFile.exists
        /\ cacheFile.token # NoTok /\ cacheFile.account # cfg.username)
          => /\ \A i \in DOMAIN sent' :
                  /\ sent'[i].oauth # cacheFile.auth.access_token
                  /\ sent'[i].params.auth_token # cacheFile.token
             /\ (op' = "idle" => count'.session >= 1 /\ count'.query = 0)]_vars

\* such a construction, completed
C8_Witness ==
    /\ ret.op = "init" /\ ret.kind = "returned" /\ ret.path = "mismatch"
    /\ count.session >= 1 /\ is_connected = "True" /\ cacheFile.account = cfg.username

\* ===================================================================== C9
\* C9: a call of query all of whose responses have a status other than 200,
\* 204 and 401 returns null, raises nothing and makes no _authenticate call.
C9_OtherStatusesReturnNull ==
    (/\ ret.op = "query" /\ ret.kind \in {"returned", "raised"}
     /\ count.query >= 1 /\ count.n401 = 0 /\ ret.resp.status = 500)
        => ret.kind = "returned" /\ ret.value = NoValue /\ ret.auth = "none"

C11_NthAttemptSucceeds ==
    [][(/\ af.active /\ af.caller = "user" /\ af' # af
        /\ af.nulls = af.loop /\ af.loop + 1 <= af.attempts
        /\ posted' = [status |-> 201, body |-> "j1"])
          => /\ ~af'.active
             /\ ret'.kind # "raised" /\ ret'.auth = "ok"
             /\ is_connected' = "True"
             /\ token' = Fresh(SessionsInUse) /\ token' # token]_vars

\* _authenticate(attempts=2): no response to the first POST, 201 to the second
C11_Witness ==
    /\ ret.op = "auth" /\ ret.kind = "returned" /\ ret.auth = "ok" /\ ret.attempts = 2
    /\ count.session = 2 /\ count.nulls = 1
    /\ posted = [status |-> 201, body |-> "j1"]
    /\ is_connected = "True" /\ token # NoTok

\* ===================================================================== C12
\* a request of query, as against one of _authenticate or the OAuth client
IsQueryRequest(rq) == rq.url \in Urls

\* C12: every request a query call sends carries the extra parameters that
\* this and the earlier query calls on the object passed, with the values of
\* the extras, together with api_version and an auth_token entry.
C12_ExtraParamsPersist ==
    \A i \in DOMAIN sent :
        IsQueryRequest(sent[i])
            => /\ sent[i].params.defined /\ sent[i].params.api_version = API_VERSION
               /\ (merged.k # 0 => sent[i].params.k = merged.k)
               /\ (merged.auth_token # 0 => sent[i].params.auth_token = merged.auth_token)

\* ===================================================================== C13
\* C13: with reuse_session, a step of _authenticate that sets is_connected to
\* true also writes the cache record of the username, the session token and
\* the OAuth token the object then holds, before the call is left.
C13_SuccessWritesCache ==
    [][(/\ cfg.reuse_session /\ af.active
        /\ is_connected # "True" /\ is_connected' = "True")
          => cacheFile' = [exists |-> TRUE, account |-> cfg.username,
                           token |-> token', auth |-> auth']]_vars

\* ===================================================================== C14
\* C14: when a request of query or of _authenticate raises a transport
\* exception, the top-level call ends by raising it: no frame of query or
\* _authenticate is left to send another request, and the requests of the
\* raising step are the last ones of the call.
C14_TransportErrorPropagates ==
    (ret.resp = Exc \/ ret.err = "transport")
        => /\ ret.kind = "raised" /\ ret.err = "transport"
           /\ ~qf.active /\ ~af.active /\ op \in {"none", "idle"}
           /\ sent # <<>> /\ count.query + count.session >= 1

\* a query whose second request, after a 401 and the re-authentication, raised
C14_Witness ==
    /\ ret.op = "query" /\ ret.kind = "raised" /\ ret.err = "transport"
    /\ ret.resp = Exc /\ ret.first = 401 /\ ret.auth = "ok"
    /\ count.query = 2 /\ count.n401 = 1 /\ ~qf.active /\ op = "idle"

\* ===================================================================== C15
\* a step that makes one call of _get_oauth_token: directly, at the start of
\* query, or in a pass of _authenticate
OAuthCallStep ==
    \/ qf.active /\ ~af.active /\ qf.pc = "oauth" /\ qf' # qf
    \/ af.active /\ (af' # af \/ ret' # ret)
    \/ op = "idle" /\ ret = NoRet /\ ret'.op = "oauth"

Refreshes(rs) == Cardinality({i \in DOMAIN rs : rs[i].kind = "REFRESH"})
Fetches(rs) == Cardinality({i \in DOMAIN rs : rs[i].kind = "FETCH"})

\* C15: a _get_oauth_token call that finds an OAuth token whose lifetime is
\* over (or that has no last_refresh) sends exactly one refresh request and
\* no fetch; when it returns, the object holds the refreshed token and
\* last_refresh is the time of the call, which the new expiry lies ahead of.
C15_ExpiredTokenRefreshedOnce ==
    [][(/\ OAuthCallStep /\ auth # NoAuth
        /\ (last_refresh = "None" \/ elapsed))
          => /\ Refreshes(sent') = 1 /\ Fetches(sent') = 0
             /\ (~lastOauth'.failed
                   => /\ last_refresh' = "set" /\ ~elapsed'
                      /\ auth' # auth /\ lastOauth'.ret = auth'.access_token)]_vars

\* a direct call that found the token expired, refreshed it and returned it
C15_Witness ==
    /\ ret.op = "oauth" /\ ret.kind = "returned"
    /\ lastOauth.expired /\ lastOauth.net = "refresh" /\ ~lastOauth.failed
    /\ Refreshes(sent) = 1 /\ Len(sent) = 1
    /\ last_refresh = "set" /\ ~elapsed /\ ret.value.val = auth.access_token

\* ===================================================================== C16
\* the steps the claim names
QueryGets401 ==
    /\ qf.active /\ ~af.active /\ count'.n401 = count.n401 + 1
    /\ ret'.resp.status = 401
AuthExhausts == af.active /\ af' # af /\ ret'.auth = "exhausted"
\* the PUT to the persist-token endpoint is sent after a 200 or 201 only
AuthSucceeds ==
    /\ af.active /\ af' # af
    /\ \/ ret'.auth = "ok"
       \/ \E i \in DOMAIN sent' : sent'[i].url = "persist"
NewObject == op # "init" /\ op' = "init"

\* C16: on one object is_connected changes only in a step in which query
\* gets a 401 or _authenticate uses up its passes (to false) or in which
\* _authenticate gets a 200 or 201 (to true); these steps set it so, and
\* every other step leaves it as it is.
C16_ConnectionStateFrame ==
    [][/\ (is_connected' # is_connected /\ ~NewObject)
            => \/ is_connected' = "False" /\ (QueryGets401 \/ AuthExhausts)
               \/ is_connected' = "True" /\ AuthSucceeds
       /\ (QueryGets401 \/ AuthExhausts => is_connected' = "False")
       /\ (AuthSucceeds => is_connected' = "True")]_vars

\* a query that got a 500 after a 401 and a re-authentication: the 500 left
\* is_connected true
C16_Witness ==
    /\ ret.op = "query" /\ ret.kind = "returned" /\ ret.first = 401
    /\ ret.auth = "ok" /\ ret.resp.status = 500 /\ count.query = 2
    /\ is_connected = "True"

\* ===================================================================== C17
\* the requests a running call has sent are bounded by its attempts arguments
RequestsBounded ==
    /\ ret.op = "query"
          => /\ count.query <= MaxAttempts + 1
             /\ count.session <= count.n401 * (RETRY_TOKEN + 1)
    /\ ret.op = "auth" => count.session <= ret.attempts + 1 /\ count.query = 0

\* C17: every call of query and of _authenticate (and every construction)
\* that has begun returns or raises, whatever the servers answer, and until
\* then it has sent a number of requests bounded by its attempts arguments.
C17_CallsTerminate ==
    /\ []RequestsBounded
    /\ (ret.kind = "running") ~> (ret.kind \in {"returned", "raised"})

\* a query whose requests were all answered 401, each followed by a
\* re-authentication that succeeded: it returned after attempts + 1 requests
C17_Witness ==
    /\ ret.op = "query" /\ ret.kind = "returned" /\ ret.auth = "ok"
    /\ count.query = MaxAttempts + 1 /\ count.n401 = MaxAttempts + 1
    /\ ret.resp.status = 401 /\ ret.value = NoValue

\* ===================================================================== C18
\* C18: with reuse_session, whenever the object exists and no call on it is
\* running, the cache file holds the session token and the OAuth token of
\* the object.
C18_CacheMatchesSession ==
    (op = "idle" /\ cfg.reuse_session)
        => /\ cacheFile.exists /\ cacheFile.account = cfg.username
           /\ cacheFile.token = token /\ cacheFile.auth = auth

\* ===================================================================== C19
\* C19: whenever is_connected is true the session token is not null and the
\* auth_token entry of the persistent parameters is the session token.
C19_ConnectedHasToken ==
    is_connected = "True"
        => token # NoTok /\ params.defined /\ params.auth_token = token

\* ===================================================================== C20
\* C20: the requests of a query call are those of a session without debug,
\* which sends a POST to the new-session endpoint only after a 401: a call
\* that got no 401 has sent none, with debug as without.
C20_DebugSendsSameRequests ==
    (ret.op = "query" /\ count.n401 = 0) => count.session = 0

====
